---- MODULE Spec2Model ----
(***************************************************************************)
(* INTRANUKE hA mode (HAIntranuke): fate selection, kinematics generation  *)
(* with retry on INukeException, and remnant nucleus bookkeeping for one   *)
(* hadron handed to SimulateHadronicFinalState.                            *)
(*                                                                         *)
(* Reals are kept on integer grids: fractions and the draw r in units of   *)
(* the fraction table, the multiplicity draws ns, nd in half units.  The   *)
(* remnant four-momentum is a token that takes a fresh value on every      *)
(* update.                                                                 *)
(***************************************************************************)
EXTENDS Integers, Sequences, FiniteSets, TLC

\* ---------------------------------------------------------------- bounds
MaxA == 4              \* small remnants: every (A, Z) with 0 <= Z <= A <= MaxA
HeavyA == 19           \* a heavy remnant, large enough for more than 18 absorbed nucleons
MaxFrac == 1           \* fraction-table entries range over 0..MaxFrac
MaxAttempts == 3       \* the attempt counter saturates here
kRjMaxIterations == 3  \* Controls.h constant (not part of the sources), scaled down
NsSlack == 2           \* nucleon probes: ns ranges up to fRemnA + NsSlack
NdSlack == 2           \* nd ranges over -(fRemnA + NdSlack) .. fRemnA + NdSlack
MaxFailedDecays == 3   \* PhaseSpaceDecay fails at most this often before it succeeds
CapA == 87             \* a remnant large enough for 86 and more absorbed nucleons
MaxMultIter == 3       \* stands for the 10000 passes allowed to while (not_done)
MaxSumIter == 2        \* stands for the 100 passes allowed to while (not_found)

\* ---------------------------------------------------------------- codes
kPdgPiP == "pi+"
kPdgPiM == "pi-"
kPdgPi0 == "pi0"
kPdgKP == "K+"
kPdgKM == "K-"
kPdgProton == "p"
kPdgNeutron == "n"
kPdgGamma == "gamma"
kPdgOther == "other"       \* any species SimulateHadronicFinalState does not handle
NullInput == "null"        \* p or ev is a null pointer

HandledMut == {kPdgPiP, kPdgPiM, kPdgPi0, kPdgKP, kPdgKM, kPdgProton, kPdgNeutron}

Handled == {kPdgPiP, kPdgPiM, kPdgPi0, kPdgKP, kPdgKM, kPdgProton, kPdgNeutron, kPdgGamma}
Inputs == {kPdgPiP, kPdgPiM, kPdgPi0, kPdgKP, kPdgKM, kPdgProton, kPdgNeutron,
           kPdgGamma, kPdgOther, NullInput}

IsPion(c) == c \in {kPdgPiP, kPdgPiM, kPdgPi0}
IsKaon(c) == c \in {kPdgKP, kPdgKM}
IsNeutronOrProton(c) == c \in {kPdgProton, kPdgNeutron}

kIHAFtUndefined == "Undefined"
kIHAFtCEx == "CEx"
kIHAFtElas == "Elas"
kIHAFtInelas == "Inelas"
kIHAFtAbs == "Abs"
kIHAFtPiProd == "PiProd"
Fates5 == {kIHAFtCEx, kIHAFtElas, kIHAFtInelas, kIHAFtAbs, kIHAFtPiProd}
NoSelection == "none"      \* an iteration of HadronFateHA fell through every test
NoFate == "unset"          \* rescatter code before SetRescatterCode

kIStHadronInTheNucleus == "HadronInTheNucleus"
kIStStableFinalState == "StableFinalState"
kIStDecayedState == "DecayedState"

Charge(c) == CASE c \in {kPdgPiP, kPdgKP, kPdgProton} -> 1
               [] c \in {kPdgPiM, kPdgKM} -> -1
               [] OTHER -> 0
Baryon(c) == IF IsNeutronOrProton(c) THEN 1 ELSE 0

\* ------------------------------------------------------ fraction tables
\* Scenario 1 of the specification, in units of 0.05: 0.1/0.3/0.3/0.2/0.1.
ScenarioFrac == [f \in Fates5 |-> CASE f = kIHAFtCEx -> 2 [] f = kIHAFtElas -> 6
                                    [] f = kIHAFtInelas -> 6 [] f = kIHAFtAbs -> 4
                                    [] OTHER -> 2]
ZeroFrac == [f \in Fates5 |-> 0]
FracTables == [Fates5 -> 0..MaxFrac] \cup {ScenarioFrac}

\* --------------------------------------------------------------- state
VARIABLES pc, pdgc, status, mom, frac, iter, r, ndraw, sel, rescat, nfate,
          attempts, gen, path, outcome, lists, pair, iterAbs, iter2,
          fRemnA, fRemnZ, fRemnP4, ev, decayFails

vars == <<pc, pdgc, status, mom, frac, iter, r, ndraw, sel, rescat, nfate,
          attempts, gen, path, outcome, lists, pair, iterAbs, iter2,
          fRemnA, fRemnZ, fRemnP4, ev, decayFails>>

fateLocals == <<frac, iter, r, ndraw, sel>>
kinVars == <<attempts, gen, path, outcome, lists, pair>>
remnant == <<fRemnA, fRemnZ, fRemnP4>>
\* iterAbs, iter2: the counters iter and iter2 of Inelastic's sampling loops.
loopVars == <<iterAbs, iter2>>

\* utils::intranuke::PhaseSpaceDecay is not part of the sources.  Its result
\* at line 1267 is an input of the run: decayFails is the number of calls
\* that will still return false before one returns true.
PhaseSpaceDecay == decayFails = 0

\* mom: 0 is the momentum p came in with, 1 a momentum set by a generator.
\* pair: <<np, nn>> as the while (not_done) loop of Inelastic left them; lists:
\* the code lists handed to emission.  Both are locals, gone after a throw.
Particle(c, st, m) == [pdg |-> c, st |-> st, mom |-> m]

\* ------------------------------------------------------- HadronFateHA
Frac(f) == frac[f]

TotalPiN == Frac(kIHAFtCEx) + Frac(kIHAFtElas) + Frac(kIHAFtInelas)
              + Frac(kIHAFtAbs) + Frac(kIHAFtPiProd)

TotalKaon == Frac(kIHAFtInelas) + Frac(kIHAFtAbs)

\* r = tf * Rndm() with Rndm() in (0,1): a value of [0, tf), or 0 when tf = 0.
\* The unit interval [k, k+1) is represented by k.
RDraws(tf) == IF tf = 0 THEN {0} ELSE 0..(tf - 1)

SelectPiNMut(rr) ==
  IF rr < Frac(kIHAFtCEx) THEN kIHAFtCEx
  ELSE IF rr < Frac(kIHAFtElas) THEN kIHAFtElas
  ELSE IF rr < Frac(kIHAFtInelas) THEN kIHAFtInelas
  ELSE IF rr < Frac(kIHAFtAbs) THEN kIHAFtAbs
  ELSE IF rr < Frac(kIHAFtPiProd) THEN kIHAFtPiProd
  ELSE NoSelection

SelectPiN(rr) ==
  LET cf1 == 0 + Frac(kIHAFtCEx)
      cf2 == cf1 + Frac(kIHAFtElas)
      cf3 == cf2 + Frac(kIHAFtInelas)
      cf4 == cf3 + Frac(kIHAFtAbs)
      cf5 == cf4 + Frac(kIHAFtPiProd)
  IN IF rr < cf1 THEN kIHAFtCEx
     ELSE IF rr < cf2 THEN kIHAFtElas
     ELSE IF rr < cf3 THEN kIHAFtInelas
     ELSE IF rr < cf4 THEN kIHAFtAbs
     ELSE IF rr < cf5 THEN kIHAFtPiProd
     ELSE NoSelection

SelectKaonMut(rr) ==
  IF rr < Frac(kIHAFtInelas) THEN kIHAFtInelas
  ELSE IF rr < Frac(kIHAFtAbs) THEN kIHAFtAbs
  ELSE NoSelection

SelectKaonAsPiN(rr) == SelectPiN(rr)

SelectKaon(rr) ==
  LET cf1 == 0 + Frac(kIHAFtInelas)
      cf2 == cf1 + Frac(kIHAFtAbs)
  IN IF rr < cf1 THEN kIHAFtInelas
     ELSE IF rr < cf2 THEN kIHAFtAbs
     ELSE NoSelection

\* ---------------------------------------------------------------- Init
Remnants == {rem \in (0..MaxA) \X (0..MaxA) : rem[2] <= rem[1]}
HeavyRemnants == {<<HeavyA, HeavyA \div 2>>}
CapRemnants == {<<CapA, CapA \div 2>>}

Init ==
  /\ pc = "idle"
  /\ pdgc = NullInput
  /\ status = kIStHadronInTheNucleus
  /\ mom = 0
  /\ frac = ZeroFrac
  /\ iter = 0
  /\ r = 0
  /\ ndraw = 0
  /\ sel = NoSelection
  /\ rescat = NoFate
  /\ nfate = 0
  /\ attempts = 0
  /\ gen = "none"
  /\ path = "none"
  /\ outcome = "none"
  /\ lists = <<>>
  /\ pair = <<0, 0>>
  /\ iterAbs = 0
  /\ iter2 = 0
  /\ \E rem \in Remnants : fRemnA = rem[1] /\ fRemnZ = rem[2]
  /\ fRemnP4 = 0
  /\ ev = <<>>
  /\ decayFails \in 0..MaxFailedDecays

\* ------------------------------------- SimulateHadronicFinalState (entry)
\* Null input or a species that is not handled: return, nothing is touched.
RejectInput ==
  /\ pc = "idle"
  /\ \E c \in Inputs \ Handled :
       /\ pdgc' = c
       /\ pc' = "done"
  /\ UNCHANGED <<status, mom, rescat, nfate, ev>>
  /\ UNCHANGED fateLocals
  /\ UNCHANGED kinVars
  /\ UNCHANGED loopVars
  /\ UNCHANGED decayFails
  /\ UNCHANGED remnant

\* A handled particle: HadronFateHA(p) is entered (iter = 0).  The fraction
\* table is fHadroData's for the particle's species and kinetic energy.
CallHadronFateHA ==
  /\ pc = "idle"
  /\ \E c \in Handled, ft \in FracTables :
       /\ pdgc' = c
       /\ frac' = ft
  /\ pc' = "fate"
  /\ nfate' = nfate + 1
  /\ iter' = 0
  /\ UNCHANGED <<status, mom, r, ndraw, sel, rescat, ev>>
  /\ UNCHANGED kinVars
  /\ UNCHANGED loopVars
  /\ UNCHANGED decayFails
  /\ UNCHANGED remnant

\* The loop test of while(iter++ < kRjMaxIterations), on the value iter has
\* before the increment.
LoopContinuesMut(it) == it <= kRjMaxIterations

LoopContinues(it) == it < kRjMaxIterations

\* One pass of the loop body.
FateIteration ==
  /\ pc = "fate"
  /\ LoopContinues(iter)
  /\ iter' = iter + 1
  /\ IF IsPion(pdgc) \/ IsNeutronOrProton(pdgc)
       THEN \E rr \in RDraws(TotalPiN) :
              /\ r' = rr
              /\ ndraw' = ndraw + 1
              /\ sel' = SelectPiN(rr)
       ELSE IF IsKaon(pdgc)
       THEN \E rr \in RDraws(TotalKaon) :
              /\ r' = rr
              /\ ndraw' = ndraw + 1
              /\ sel' = SelectKaon(rr)
       ELSE /\ sel' = NoSelection
            /\ UNCHANGED <<r, ndraw>>
  /\ pc' = IF sel' # NoSelection THEN "fateret" ELSE "fate"
  /\ UNCHANGED <<pdgc, status, mom, frac, rescat, nfate, ev>>
  /\ UNCHANGED kinVars
  /\ UNCHANGED loopVars
  /\ UNCHANGED decayFails
  /\ UNCHANGED remnant

\* The loop test fails: return kIHAFtUndefined.
FateExhausted ==
  /\ pc = "fate"
  /\ ~LoopContinues(iter)
  /\ iter' = iter + 1
  /\ sel' = kIHAFtUndefined
  /\ pc' = "fateret"
  /\ UNCHANGED <<pdgc, status, mom, frac, r, ndraw, rescat, nfate, ev>>
  /\ UNCHANGED kinVars
  /\ UNCHANGED loopVars
  /\ UNCHANGED decayFails
  /\ UNCHANGED remnant

\* if(fate == kIHAFtUndefined): the test that ends the processing right after
\* the fate is stored.
FateIsTerminalMut(fate) == FALSE

FateIsTerminal(fate) == fate = kIHAFtUndefined

\* Back in SimulateHadronicFinalState: store the fate; Undefined ends here.
\* HadronFateHA's locals (fractions, r, iter) are gone once it has returned.
StoreFate ==
  /\ pc = "fateret"
  /\ rescat' = sel
  /\ frac' = ZeroFrac
  /\ iter' = 0
  /\ r' = 0
  /\ IF FateIsTerminal(sel)
       THEN /\ status' = kIStStableFinalState
            /\ ev' = Append(ev, Particle(pdgc, kIStStableFinalState, mom))
            /\ pc' = "done"
       ELSE /\ pc' = "kin"
            /\ UNCHANGED <<status, ev>>
  /\ UNCHANGED <<pdgc, mom, nfate, ndraw, sel>>
  /\ UNCHANGED kinVars
  /\ UNCHANGED loopVars
  /\ UNCHANGED decayFails
  /\ UNCHANGED remnant

\* ------------------------------ SimulateHadronicFinalStateKinematics
\* The stored fate is read back from the mother's rescatter code.
StoredFateMut == IF attempts > 0 THEN kIHAFtElas ELSE rescat

StoredFate == rescat

Dispatch(fate) ==
  IF fate = kIHAFtElas THEN "ElasHA"
  ELSE IF fate = kIHAFtInelas \/ fate = kIHAFtCEx THEN "InelasticHA"
  ELSE IF fate = kIHAFtAbs \/ fate = kIHAFtPiProd THEN "Inelastic"
  ELSE "none"

Min(a, b) == IF a < b THEN a ELSE b

\* One invocation of SimulateHadronicFinalStateKinematics that dispatches to
\* generator g and takes the code path pth.
Attempt(g, pth) ==
  /\ pc = "kin"
  /\ Dispatch(StoredFate) = g
  /\ gen' = g
  /\ path' = pth
  /\ attempts' = Min(attempts + 1, MaxAttempts)

\* The generator returned normally: the kinematics call returns.
Returned(how) ==
  /\ outcome' = how
  /\ pc' = "done"

\* The generator threw INukeException: the catch block calls
\* SimulateHadronicFinalStateKinematics again.
Thrown ==
  /\ outcome' = "throw"
  /\ pc' = "kin"

\* ----------------------------------------------------------------- ElasHA
\* utils::intranuke::TwoBodyKinematics is not part of the sources: it either
\* fails, touching nothing, or returns the two outgoing four-vectors.
ElasHA ==
  /\ UNCHANGED <<pdgc, rescat, nfate, fRemnA, fRemnZ, lists, pair>>
  /\ UNCHANGED fateLocals
  /\ UNCHANGED loopVars
  /\ UNCHANGED decayFails
  /\ IF fRemnA < 0 \/ fRemnZ < 0
       THEN /\ Attempt("ElasHA", "Elas:invalidNucleus")
            /\ status' = kIStStableFinalState
            /\ ev' = Append(ev, Particle(pdgc, kIStStableFinalState, mom))
            /\ Returned("terminal")
            /\ UNCHANGED <<mom, fRemnP4>>
       ELSE \E ok \in BOOLEAN :
              IF ok
                THEN /\ Attempt("ElasHA", "Elas")
                     /\ mom' = 1
                     /\ status' = kIStStableFinalState
                     /\ fRemnP4' = fRemnP4 + 1
                     /\ ev' = Append(ev, Particle(pdgc, kIStStableFinalState, 1))
                     /\ Returned("ok")
                ELSE /\ Attempt("ElasHA", "Elas")
                     /\ Thrown
                     /\ UNCHANGED <<status, mom, fRemnP4, ev>>

\* ------------------------------------------------------------ InelasticHA
\* (rnd <= ppcnt) with ppcnt = (double) fRemnZ / (double) fRemnA and rnd in
\* (0,1): the outcomes some draw can produce.  0/0 is NaN (comparison
\* false), z/0 is +-infinity.
TargetByFraction(A, Z) ==
  IF A = 0
    THEN (IF Z > 0 THEN {kPdgProton} ELSE {kPdgNeutron})
    ELSE (IF (A > 0 /\ Z > 0) \/ (A < 0 /\ Z < 0) THEN {kPdgProton} ELSE {})
           \cup (IF (A > 0 /\ Z < A) \/ (A < 0 /\ Z > A) THEN {kPdgNeutron} ELSE {})

\* <<tcode, scode, s2code>> choices; {} when the species cannot be handled.
InelasticHASpecies(fate, c, A, Z) ==
  IF fate = kIHAFtCEx
    THEN CASE c = kPdgPiP -> {<<kPdgNeutron, kPdgPi0, kPdgProton>>}
           [] c = kPdgPiM -> {<<kPdgProton, kPdgPi0, kPdgNeutron>>}
           [] c = kPdgPi0 -> {<<t, IF t = kPdgProton THEN kPdgPiP ELSE kPdgPiM,
                                   IF t = kPdgProton THEN kPdgNeutron ELSE kPdgProton>> :
                                t \in TargetByFraction(A, Z)}
           [] c = kPdgProton -> {<<kPdgNeutron, kPdgNeutron, kPdgProton>>}
           [] c = kPdgNeutron -> {<<kPdgProton, kPdgProton, kPdgNeutron>>}
           [] OTHER -> {}
    ELSE {<<t, c, t>> : t \in TargetByFraction(A, Z)}

\* The charge test of the remnant check, with the code's own charge terms.
ChgHA(c) == (IF c = kPdgProton \/ c = kPdgPiP THEN 1 ELSE 0) - (IF c = kPdgPiM THEN 1 ELSE 0)

TooFewProtonsMut(c, scode, s2code, Z) == FALSE

TooFewProtons(c, scode, s2code, Z) == Z + ChgHA(c) < ChgHA(scode) + ChgHA(s2code)

\* utils::intranuke::TwoBodyCollision is not part of the sources.  It is handed
\* fRemnA, fRemnZ, fRemnP4 and, InelasticHA having no remnant update of its
\* own, on success it has taken the target nucleon out of the remnant:
\* <<A, Z>> after the collision.
TwoBodyCollisionRemnant(tcode, A, Z) ==
  <<A - 1, Z - (IF tcode = kPdgProton THEN 1 ELSE 0)>>

\* if (C3CM<-1.) after IntBounce in InelasticHA: "unphysical but we just pass
\* it on", the particle is put outside the nucleus and InelasticHA returns.
InelasticHABadAngleMut ==
  /\ Attempt("InelasticHA", "InelHA:badAngle")
  /\ Thrown
  /\ UNCHANGED <<status, ev>>
  /\ UNCHANGED remnant

InelasticHABadAngle ==
  /\ Attempt("InelasticHA", "InelHA:badAngle")
  /\ status' = kIStStableFinalState
  /\ ev' = Append(ev, Particle(pdgc, kIStStableFinalState, mom))
  /\ Returned("terminal")
  /\ UNCHANGED remnant

InelasticHA ==
  /\ UNCHANGED <<pdgc, rescat, nfate, mom, lists, pair>>
  /\ UNCHANGED fateLocals
  /\ UNCHANGED loopVars
  /\ UNCHANGED decayFails
  /\ IF InelasticHASpecies(StoredFate, pdgc, fRemnA, fRemnZ) = {}
       THEN /\ Attempt("InelasticHA", "InelHA:cannotHandle")
            /\ Returned("ignored")
            /\ UNCHANGED <<status, ev>>
            /\ UNCHANGED remnant
       ELSE \E sp \in InelasticHASpecies(StoredFate, pdgc, fRemnA, fRemnZ) :
         LET tcode == sp[1]
             scode == sp[2]
             s2code == sp[3]
         IN IF fRemnA < 1
              THEN /\ Attempt("InelasticHA", "InelHA:notEnoughNucleons")
                   /\ status' = kIStStableFinalState
                   /\ ev' = Append(ev, Particle(pdgc, kIStStableFinalState, mom))
                   /\ Returned("terminal")
                   /\ UNCHANGED remnant
              ELSE IF TooFewProtons(pdgc, scode, s2code, fRemnZ)
              THEN /\ Attempt("InelasticHA", "InelHA:tooFewProtons")
                   /\ status' = kIStStableFinalState
                   /\ ev' = Append(ev, Particle(pdgc, kIStStableFinalState, mom))
                   /\ Returned("terminal")
                   /\ UNCHANGED remnant
              ELSE \E res \in {"badAngle", "collisionFails", "keTooLarge", "ok"} :
                CASE res = "badAngle" ->
                       \* IntBounce returned a cosine below -1
                       InelasticHABadAngle
                  [] res = "collisionFails" ->
                       /\ Attempt("InelasticHA", "InelHA:collisionFails")
                       /\ Thrown
                       /\ UNCHANGED <<status, ev>>
                       /\ UNCHANGED remnant
                  [] res = "keTooLarge" ->
                       \* TwoBodyCollision succeeded and updated the remnant it
                       \* was handed by reference; the energy check then throws
                       /\ Attempt("InelasticHA", "InelHA:keTooLarge")
                       /\ fRemnA' = TwoBodyCollisionRemnant(tcode, fRemnA, fRemnZ)[1]
                       /\ fRemnZ' = TwoBodyCollisionRemnant(tcode, fRemnA, fRemnZ)[2]
                       /\ fRemnP4' = fRemnP4 + 1
                       /\ Thrown
                       /\ UNCHANGED <<status, ev>>
                  [] OTHER ->
                       /\ Attempt("InelasticHA", "InelHA")
                       /\ fRemnA' = TwoBodyCollisionRemnant(tcode, fRemnA, fRemnZ)[1]
                       /\ fRemnZ' = TwoBodyCollisionRemnant(tcode, fRemnA, fRemnZ)[2]
                       /\ fRemnP4' = fRemnP4 + 1
                       /\ ev' = ev \o <<Particle(scode, kIStStableFinalState, 1),
                                        Particle(s2code, kIStStableFinalState, 1)>>
                       /\ Returned("ok")
                       /\ UNCHANGED status

\* ------------------------------------------- Inelastic: pion production
\* utils::intranuke::PionProduction is not part of the sources: on success it
\* has set the three clones s1, s2, s3 and updated the remnant four-momentum.
PionProductionTriples(c) ==
  {<<c, n2, p3>> : n2 \in {kPdgProton, kPdgNeutron}, p3 \in {kPdgPiP, kPdgPi0, kPdgPiM}}

\* s1, s2, s3 are set stable and added to the event record.
PiProdEmittedMut(tr) ==
  <<Particle(tr[1], kIStStableFinalState, 1), Particle(tr[2], kIStStableFinalState, 1)>>

PiProdEmitted(tr) ==
  <<Particle(tr[1], kIStStableFinalState, 1),
    Particle(tr[2], kIStStableFinalState, 1),
    Particle(tr[3], kIStStableFinalState, 1)>>

InelasticPiProd ==
  /\ StoredFate = kIHAFtPiProd
  /\ UNCHANGED <<pdgc, rescat, nfate, status, mom, lists, pair, fRemnA, fRemnZ>>
  /\ UNCHANGED fateLocals
  /\ UNCHANGED loopVars
  /\ UNCHANGED decayFails
  /\ \/ \E tr \in PionProductionTriples(pdgc) :
          /\ Attempt("Inelastic", "PiProd")
          /\ ev' = ev \o PiProdEmitted(tr)
          /\ fRemnP4' = fRemnP4 + 1
          /\ Returned("ok")
     \/ /\ Attempt("Inelastic", "PiProd")
        /\ Thrown
        /\ UNCHANGED <<ev, fRemnP4>>

\* ------------------------------------------------- Inelastic: absorption
\* The three tests made before any final state is tried.
AbsorptionBlocked(c, A, Z) ==
  \/ A < 2
  \/ (Z < 1 /\ (c = kPdgPiM \/ c = kPdgKM))
  \/ (A - Z < 1 /\ (c = kPdgPiP \/ c = kPdgKP))

InelasticAbsBlocked ==
  /\ StoredFate = kIHAFtAbs
  /\ AbsorptionBlocked(pdgc, fRemnA, fRemnZ)
  /\ Attempt("Inelastic", "Abs:blocked")
  /\ Thrown
  /\ UNCHANGED <<pdgc, rescat, nfate, status, mom, lists, pair, ev>>
  /\ UNCHANGED fateLocals
  /\ UNCHANGED loopVars
  /\ UNCHANGED decayFails
  /\ UNCHANGED remnant

\* Some rnd in (0,1) has rnd * s < q, resp. rnd * s >= q.
CanBeBelow(s, q) == IF s >= 0 THEN q > 0 ELSE q > s
CanBeAtLeast(s, q) == IF s > 0 THEN q < s ELSE IF s = 0 THEN q <= 0 ELSE q < 0

\* Branching weights times 1000 * fRemnA^2 (ppcnt = fRemnZ / fRemnA).
ProbD(A, Z) == 2000 * Z * (A - Z)
ProbNN083(A, Z) == 83 * (A - Z) * (A - Z)
ProbPP083(A, Z) == 83 * Z * Z
ProbD088(A, Z) == 880 * Z * (A - Z)
ProbPP014(A, Z) == 140 * Z * Z
ProbNN014(A, Z) == 140 * (A - Z) * (A - Z)

\* <<t1code, t2code, scode, s2code>>
PipChoices(A, Z) ==
  (IF CanBeBelow(ProbD(A, Z) + ProbNN083(A, Z), ProbD(A, Z))
     THEN {<<kPdgNeutron, kPdgProton, kPdgProton, kPdgProton>>} ELSE {})
  \cup (IF CanBeAtLeast(ProbD(A, Z) + ProbNN083(A, Z), ProbD(A, Z))
          THEN {<<kPdgNeutron, kPdgNeutron, kPdgProton, kPdgNeutron>>} ELSE {})

PimChoices(A, Z) ==
  (IF CanBeBelow(ProbD(A, Z) + ProbPP083(A, Z), ProbD(A, Z))
     THEN {<<kPdgProton, kPdgNeutron, kPdgNeutron, kPdgNeutron>>} ELSE {})
  \cup (IF CanBeAtLeast(ProbD(A, Z) + ProbPP083(A, Z), ProbD(A, Z))
          THEN {<<kPdgProton, kPdgProton, kPdgProton, kPdgNeutron>>} ELSE {})

Pi0Choices(A, Z) ==
  LET tot == ProbD088(A, Z) + ProbPP014(A, Z) + ProbNN014(A, Z)
  IN (IF CanBeBelow(tot, ProbD088(A, Z))
        THEN {<<kPdgNeutron, kPdgProton, kPdgNeutron, kPdgProton>>} ELSE {})
     \cup (IF CanBeAtLeast(tot, ProbD088(A, Z))
                /\ CanBeBelow(tot, ProbD088(A, Z) + ProbPP014(A, Z))
             THEN {<<kPdgProton, kPdgProton, kPdgProton, kPdgProton>>} ELSE {})
     \cup (IF CanBeAtLeast(tot, ProbD088(A, Z))
                /\ CanBeAtLeast(tot, ProbD088(A, Z) + ProbPP014(A, Z))
             THEN {<<kPdgNeutron, kPdgNeutron, kPdgNeutron, kPdgNeutron>>} ELSE {})

\* if (pi+ or K+) {...}  if (pi- or K-) {...} else {...}: the second statement
\* is not chained to the first, so its else branch also runs for pi+ and K+
\* and assigns all four codes again.
TwoBodySpecies(c, A, Z) ==
  LET afterFirst == IF c = kPdgPiP \/ c = kPdgKP THEN PipChoices(A, Z) ELSE {}
      afterSecond == IF c = kPdgPiM \/ c = kPdgKM THEN PimChoices(A, Z) ELSE Pi0Choices(A, Z)
  IN afterSecond

NProtons(t1, t2) == (IF t1 = kPdgProton THEN 1 ELSE 0) + (IF t2 = kPdgProton THEN 1 ELSE 0)

\* fRemnZ after the four if statements that follow TwoBodyKinematics.
TwoBodyRemnZ(c, t1, t2, Z) ==
  Z + (IF c = kPdgPiP \/ c = kPdgKP THEN 1 ELSE 0)
    - (IF c = kPdgPiM \/ c = kPdgKM THEN 1 ELSE 0)
    - NProtons(t1, t2)

\* pi d -> N N.  Taken with probability 1.14*(.903-0.00189*A)*(1.35-0.00467*ke)
\* for pions and kaons; ke is not tracked, so both regimes are open to them.
InelasticAbsTwoBody ==
  /\ StoredFate = kIHAFtAbs
  /\ ~AbsorptionBlocked(pdgc, fRemnA, fRemnZ)
  /\ IsPion(pdgc) \/ IsKaon(pdgc)
  /\ UNCHANGED <<pdgc, rescat, nfate, status, mom, pair>>
  /\ UNCHANGED fateLocals
  /\ UNCHANGED loopVars
  /\ UNCHANGED decayFails
  /\ \E sp \in TwoBodySpecies(pdgc, fRemnA, fRemnZ) :
       \E res \in {"badAngle", "kinematicsFail", "ok"} :
         CASE res = "badAngle" ->
                /\ Attempt("Inelastic", "Abs2:badAngle")
                /\ Thrown
                /\ UNCHANGED <<lists, ev>>
                /\ UNCHANGED remnant
           [] res = "kinematicsFail" ->
                /\ Attempt("Inelastic", "Abs2:kinematicsFail")
                /\ Thrown
                /\ UNCHANGED <<lists, ev>>
                /\ UNCHANGED remnant
           [] OTHER ->
                /\ Attempt("Inelastic", "Abs2")
                /\ fRemnZ' = TwoBodyRemnZ(pdgc, sp[1], sp[2], fRemnZ)
                /\ fRemnA' = fRemnA - 2
                /\ fRemnP4' = fRemnP4 + 1
                /\ lists' = << <<sp[3], sp[4]>> >>
                /\ ev' = ev \o <<Particle(sp[3], kIStStableFinalState, 1),
                                 Particle(sp[4], kIStStableFinalState, 1)>>
                /\ Returned("ok")

\* ------------------------------------ Inelastic: multi-nucleon absorption
\* int(x) of a quotient a/b with b > 0: truncation towards zero.
TruncDiv(a, b) == IF a >= 0 THEN a \div b ELSE -((-a) \div b)

\* ns and nd in half units (ns = nsH/2, nd = ndH/2):
\* np = int((ns+nd)/2.+.5), nn = int((ns-nd)/2.+.5).
NpOf(nsH, ndH) == TruncDiv(nsH + ndH + 2, 4)
NnOf(nsH, ndH) == TruncDiv(nsH - ndH + 2, 4)

\* Nucleon probes: ns = -log(rnd)/gam_ns > 0.  Pion and kaon probes: ns is
\* kept only when 0 <= ns <= max, max <= fRemnA, and rnd <= ns/max (never
\* for ns = 0).
NsDraws(c, A) == IF IsNeutronOrProton(c) THEN 1..(2 * (A + NsSlack)) ELSE 1..(2 * A)
NdDraws(A) == (-2 * (A + NdSlack))..(2 * (A + NdSlack))

ProtonCeiling(c, A, Z) ==
  Z + (IF c = kPdgProton \/ c = kPdgPiP \/ c = kPdgKP THEN 1 ELSE 0)
    - (IF c = kPdgPiM \/ c = kPdgKM THEN 1 ELSE 0)

NeutronCeiling(c, A, Z) ==
  A - Z + (IF c = kPdgNeutron \/ c = kPdgPiM THEN 1 ELSE 0)
        - (IF c = kPdgPiP \/ c = kPdgKP THEN 1 ELSE 0)

\* The chain of rejection tests; TRUE when the draw ends the loop.
AcceptedPair(c, A, Z, np, nn) ==
  IF np < 0 \/ nn < 0 THEN FALSE
  ELSE IF np + nn < 2 THEN FALSE
  ELSE IF np + nn = 2 /\ IsNeutronOrProton(c) THEN FALSE
  ELSE IF np > ProtonCeiling(c, A, Z) THEN FALSE
  ELSE IF nn > NeutronCeiling(c, A, Z) THEN FALSE
  ELSE TRUE

\* double frac = 85./double(np+nn): an IEEE-754 double, that is 85/s rounded
\* to 53 significant bits, ties to even.  With 2^-k <= 85/s < 2^(1-k) the
\* double is frac = M * 2^-(52+k), M the rounded quotient of 85 * 2^(52+k) by s.
RECURSIVE FracShiftFrom(_, _)
FracShiftFrom(s, x) == IF x >= s THEN 0 ELSE 1 + FracShiftFrom(s, 2 * x)

FracShift(s) == FracShiftFrom(s, 85)

\* (x * 2^n) % m, by n doublings (85 * 2^(52+k) does not fit a machine word).
RECURSIVE DoubledMod(_, _, _)
DoubledMod(x, n, m) == IF n = 0 THEN x % m ELSE DoubledMod((2 * x) % m, n - 1, m)

\* The rounding error of the division, as the integer e with
\* 85/s - frac = e / (s * 2^(52+k)): the remainder when the quotient is
\* rounded down, the remainder minus s when it is rounded up; on a tie the
\* even quotient is taken.
FracError(s) ==
  LET r2 == DoubledMod(85, 52 + FracShift(s), 2 * s)
      odd == r2 >= s
      rm == IF odd THEN r2 - s ELSE r2
  IN IF 2 * rm < s THEN rm
     ELSE IF 2 * rm > s THEN rm - s
     ELSE IF odd THEN rm - s ELSE rm

RECURSIVE FloorLog2(_)
FloorLog2(k) == IF k < 2 THEN 0 ELSE 1 + FloorLog2(k \div 2)

RECURSIVE Pow2(_)
Pow2(n) == IF n = 0 THEN 1 ELSE 2 * Pow2(n - 1)

\* int(n*frac) for the count n and s = np + nn.  The product n*frac is again
\* rounded to a double and int() truncates it.  Both roundings together move
\* the value by far less than 1/s, so the result is the exact quotient of
\* n*85 by s unless that quotient is a whole number q: then n*frac is
\* q - n*e/(s*2^(52+k)), which rounds back to q when it is at least q (e <= 0)
\* or within half the spacing of the doubles just below q (2^(b-52) for
\* 2^b < q < 2^(b+1), 2^(b-53) for q = 2^b), and to a double below q, which
\* int() truncates to q - 1, otherwise.
TimesFrac(n, s) ==
  LET q == (n * 85) \div s
      e == FracError(s)
      b == FloorLog2(q)
      pw == IF Pow2(b) = q THEN 1 ELSE 0
  IN IF n = 0 \/ (n * 85) % s # 0 \/ e <= 0 THEN q
     ELSE IF 2 * n * e <= s * Pow2(FracShift(s) + b - pw) THEN q
     ELSE q - 1

\* if (np+nn>86) { frac = 85./double(np+nn); np = int(np*frac); nn = int(nn*frac); }
\* (reached only with np >= 0 and nn >= 0, after the rejection chain).
ScaleDown(np, nn) ==
  IF np + nn > 86
    THEN <<TimesFrac(np, np + nn), TimesFrac(nn, np + nn)>>
    ELSE <<np, nn>>

\* The test that guards "leave at least one nucleon in the nucleus".
TakesWholeNucleus(c, A, Z, np, nn) ==
  /\ np = Z + (IF c = kPdgProton \/ c = kPdgPiP \/ c = kPdgKP THEN 1 ELSE 0)
            - (IF c = kPdgPiM THEN 1 ELSE 0)
  /\ nn = A - Z + (IF c = kPdgNeutron \/ c = kPdgPiM \/ c = kPdgKM THEN 1 ELSE 0)
                - (IF c = kPdgPiP THEN 1 ELSE 0)

\* if (rnd < np/(double)(np+nn)) np--; else nn--;
LeaveOne(c, A, Z, pr) ==
  IF TakesWholeNucleus(c, A, Z, pr[1], pr[2])
    THEN (IF pr[1] > 0 THEN {<<pr[1] - 1, pr[2]>>} ELSE {})
           \cup (IF pr[2] > 0 THEN {<<pr[1], pr[2] - 1>>} ELSE {})
    ELSE {pr}

\* Every <<np, nn>> the while (not_done) loop can leave with.
FinalPairs(c, A, Z) ==
  UNION { LeaveOne(c, A, Z, ScaleDown(NpOf(nsH, ndH), NnOf(nsH, ndH))) :
            <<nsH, ndH>> \in {d \in NsDraws(c, A) \X NdDraws(A) :
                                AcceptedPair(c, A, Z, NpOf(d[1], d[2]), NnOf(d[1], d[2]))} }

\* Some draw is rejected, so iter can reach 10000 (or iter2 100).
SomeDrawRejected(c, A, Z) ==
  ~(\A d \in NsDraws(c, A) \X NdDraws(A) :
       AcceptedPair(c, A, Z, NpOf(d[1], d[2]), NnOf(d[1], d[2])))

\* "change remnants to reflect probe"
ProbeRemnZ(c, Z) ==
  Z + (IF c = kPdgProton \/ c = kPdgPiP \/ c = kPdgKP THEN 1 ELSE 0)
    - (IF c = kPdgPiM \/ c = kPdgKM THEN 1 ELSE 0)
ProbeRemnAMut(c, A) == A

ProbeRemnA(c, A) == A + (IF IsNeutronOrProton(c) THEN 1 ELSE 0)

\* The recovery after a failed PhaseSpaceDecay on the one-list path.
RecoverRemnZ(c, Z, np) ==
  Z + np - (IF c = kPdgProton \/ c = kPdgPiP THEN 1 ELSE 0)
         + (IF c = kPdgPiM THEN 1 ELSE 0)
RecoverRemnA(c, A, np, nn) == A + np + nn - (IF IsNeutronOrProton(c) THEN 1 ELSE 0)

RECURSIVE Repeat(_, _)
Repeat(x, n) == IF n <= 0 THEN <<>> ELSE <<x>> \o Repeat(x, n - 1)

RECURSIVE Emitted(_)
\* utils::intranuke::PhaseSpaceDecay is not part of the sources: on success it
\* appends one stable particle per code of the list.
Emitted(list) ==
  IF list = <<>> THEN <<>>
  ELSE <<Particle(Head(list), kIStStableFinalState, 1)>> \o Emitted(Tail(list))

\* The four "probe" nucleons: (np+nn)*rnd < np picks a proton.  Sequences of
\* the codes that can be picked, np and nn decreasing as they are.
RECURSIVE CarrierSeqs(_, _, _)
CarrierSeqs(np, nn, k) ==
  IF k = 0 THEN {<<>>}
  ELSE (IF np > 0 THEN {<<kPdgProton>> \o t : t \in CarrierSeqs(np - 1, nn, k - 1)} ELSE {})
         \cup (IF nn > 0 \/ np <= 0
                 THEN {<<kPdgNeutron>> \o t : t \in CarrierSeqs(np, nn - 1, k - 1)} ELSE {})

CountOf(list, c) == Cardinality({i \in 1..Len(list) : list[i] = c})

RECURSIVE StridedMut(_, _, _, _)
StridedMut(k, i, np, nn) ==
  IF i >= np + nn THEN <<>>
  ELSE (IF i % 4 = k THEN <<IF i < np THEN kPdgProton ELSE kPdgNeutron>> ELSE <<>>)
         \o StridedMut(k, i + 1, np, nn)

RECURSIVE Strided(_, _, _, _)
\* Codes pushed to listar[k] by for (i=0;i<np+nn;i++) listar[i%5]->push_back(...),
\* from index i on.
Strided(k, i, np, nn) ==
  IF i >= np + nn THEN <<>>
  ELSE (IF i % 5 = k THEN <<IF i < np THEN kPdgProton ELSE kPdgNeutron>> ELSE <<>>)
         \o Strided(k, i + 1, np, nn)

\* The five lists for carriers cs and the counts np, nn left after them.
FiveListsMut(cs, np, nn) == [k \in 1..5 |-> Strided(k - 1, 0, np, nn)]

FiveLists(cs, np, nn) ==
  [k \in 1..5 |-> (IF k >= 2 THEN <<cs[k - 1]>> ELSE <<>>) \o Strided(k - 1, 0, np, nn)]

RECURSIVE EmittedGroups(_, _, _)
EmittedGroups(ls, oks, k) ==
  IF k > Len(ls) THEN <<>>
  ELSE (IF oks[k] THEN Emitted(ls[k]) ELSE <<>>) \o EmittedGroups(ls, oks, k + 1)

InelasticAbsMulti ==
  /\ StoredFate = kIHAFtAbs
  /\ ~AbsorptionBlocked(pdgc, fRemnA, fRemnZ)
  /\ UNCHANGED <<pdgc, rescat, nfate, mom>>
  /\ UNCHANGED fateLocals
  /\ \/ \* iter >= 10000 or iter2 >= 100
        /\ SomeDrawRejected(pdgc, fRemnA, fRemnZ)
        /\ Attempt("Inelastic", "AbsMulti:noChoice")
        /\ Thrown
        /\ UNCHANGED <<status, lists, pair, ev>>
        /\ UNCHANGED remnant
        /\ UNCHANGED <<iterAbs, iter2, decayFails>>
     \/ \E pr \in FinalPairs(pdgc, fRemnA, fRemnZ) :
          LET np == pr[1]
              nn == pr[2]
              Zp == ProbeRemnZ(pdgc, fRemnZ)
              Ap == ProbeRemnA(pdgc, fRemnA)
          IN IF np + nn > 18
               THEN \E cs \in CarrierSeqs(np, nn, 4), oks \in [1..5 -> BOOLEAN] :
                      LET npp == CountOf(cs, kPdgProton)
                          ls == FiveLists(cs, np - npp, nn - (4 - npp))
                      IN /\ Attempt("Inelastic", "AbsMulti5")
                         /\ lists' = ls
                         /\ pair' = pr
                         /\ fRemnZ' = Zp - npp - (np - npp)
                         /\ fRemnA' = Ap - 4 - ((np - npp) + (nn - (4 - npp)))
                         /\ fRemnP4' = fRemnP4 + 1
                         /\ ev' = ev \o EmittedGroups(ls, oks, 1)
                         /\ Returned("ok")
                         /\ UNCHANGED <<status, iterAbs, iter2, decayFails>>
               ELSE LET list == Repeat(kPdgProton, np) \o Repeat(kPdgNeutron, nn)
                    IN LET success == PhaseSpaceDecay
                       IN /\ UNCHANGED <<iterAbs, iter2>>
                          /\ IF success
                              THEN /\ Attempt("Inelastic", "AbsMulti18")
                                   /\ lists' = <<list>>
                                   /\ pair' = pr
                                   /\ fRemnZ' = Zp - np
                                   /\ fRemnA' = Ap - np - nn
                                   /\ fRemnP4' = fRemnP4 + 1
                                   /\ ev' = ev \o Emitted(list)
                                   /\ Returned("ok")
                                   /\ UNCHANGED <<status, decayFails>>
                              ELSE /\ Attempt("Inelastic", "AbsMulti18:decayFails")
                                   /\ lists' = <<>>
                                   /\ pair' = <<0, 0>>
                                   /\ status' = kIStStableFinalState
                                   /\ ev' = Append(ev, Particle(pdgc, kIStStableFinalState, mom))
                                   /\ fRemnA' = RecoverRemnA(pdgc, Ap - np - nn, np, nn)
                                   /\ fRemnZ' = RecoverRemnZ(pdgc, Zp - np, np)
                                   /\ UNCHANGED fRemnP4
                                   /\ decayFails' = decayFails - 1
                                   /\ Thrown

Kinematics == ElasHA \/ InelasticHA \/ InelasticPiProd \/ InelasticAbsBlocked
                \/ InelasticAbsTwoBody \/ InelasticAbsMulti

Next == RejectInput \/ CallHadronFateHA \/ FateIteration \/ FateExhausted \/ StoreFate
          \/ ElasHA \/ InelasticHA \/ InelasticPiProd \/ InelasticAbsBlocked
          \/ InelasticAbsTwoBody \/ InelasticAbsMulti

Spec == Init /\ [][Next]_vars

\* Every random outcome has positive probability: an attempt that can end the
\* processing is not passed over forever.
FairSpec == Spec /\ WF_vars(Next) /\ SF_vars(Kinematics /\ pc' = "done")

\* Inelastic(ev, p, kIHAFtAbs) on its own: the state in which
\* SimulateHadronicFinalStateKinematics is first entered with the Absorption
\* fate stored, for every hadron and for light and heavy remnants.
InitAbs ==
  /\ pc = "kin"
  /\ pdgc \in Handled \ {kPdgGamma}
  /\ status = kIStHadronInTheNucleus
  /\ mom = 0
  /\ frac = ZeroFrac
  /\ iter = 0
  /\ r = 0
  /\ ndraw = 1
  /\ sel = kIHAFtAbs
  /\ rescat = kIHAFtAbs
  /\ nfate = 1
  /\ attempts = 0
  /\ gen = "none"
  /\ path = "none"
  /\ outcome = "none"
  /\ lists = <<>>
  /\ pair = <<0, 0>>
  /\ iterAbs = 0
  /\ iter2 = 0
  /\ \E rem \in Remnants \cup HeavyRemnants : fRemnA = rem[1] /\ fRemnZ = rem[2]
  /\ fRemnP4 = 0
  /\ ev = <<>>
  /\ decayFails \in 0..MaxFailedDecays

NextAbs == InelasticAbsBlocked \/ InelasticAbsTwoBody \/ InelasticAbsMulti

AbsSpec == InitAbs /\ [][NextAbs]_vars

\* The while (not_done) loop of multi-nucleon absorption on its own, from the
\* state in which Inelastic(ev, p, kIHAFtAbs) has passed the three absorption
\* tests: the loop leaves with <<np, nn>> chosen and nothing else touched.
\* Remnants are the light ones and one of CapA nucleons.
AbsorptionMultiplicity ==
  /\ pc = "kin"
  /\ StoredFate = kIHAFtAbs
  /\ ~AbsorptionBlocked(pdgc, fRemnA, fRemnZ)
  /\ \/ \* a pair passes the tests: the loop is left with not_done = false
        /\ \E pr \in FinalPairs(pdgc, fRemnA, fRemnZ) : pair' = pr
        /\ pc' = "chosen"
        /\ UNCHANGED <<attempts, gen, path, outcome>>
     \/ \* iter >= 10000 or iter2 >= 100: INukeException, the call is retried
        /\ SomeDrawRejected(pdgc, fRemnA, fRemnZ)
        /\ Attempt("Inelastic", "AbsMulti:noChoice")
        /\ Thrown
        /\ UNCHANGED pair
  /\ UNCHANGED <<pdgc, status, mom, rescat, nfate, lists, ev>>
  /\ UNCHANGED fateLocals
  /\ UNCHANGED loopVars
  /\ UNCHANGED decayFails
  /\ UNCHANGED remnant

InitMult ==
  /\ pc = "kin"
  /\ pdgc \in Handled \ {kPdgGamma}
  /\ status = kIStHadronInTheNucleus
  /\ mom = 0
  /\ frac = ZeroFrac
  /\ iter = 0
  /\ r = 0
  /\ ndraw = 1
  /\ sel = kIHAFtAbs
  /\ rescat = kIHAFtAbs
  /\ nfate = 1
  /\ attempts = 0
  /\ gen = "none"
  /\ path = "none"
  /\ outcome = "none"
  /\ lists = <<>>
  /\ pair = <<0, 0>>
  /\ iterAbs = 0
  /\ iter2 = 0
  /\ \E rem \in Remnants \cup CapRemnants : fRemnA = rem[1] /\ fRemnZ = rem[2]
  /\ fRemnP4 = 0
  /\ ev = <<>>
  /\ decayFails = 0

NextMult == AbsorptionMultiplicity

MultSpec == InitMult /\ [][NextMult]_vars

\* The sampling loops of multi-nucleon absorption pass by pass.
\* if (iter>=10000) and if (iter2>=100), on scaled-down limits.
MultLoopExceededMut(it) == it > MaxMultIter

MultLoopExceeded(it) == it >= MaxMultIter

SumLoopExceeded(it) == it >= MaxSumIter

\* Inelastic(ev, p, kIHAFtAbs) passes the three absorption tests and enters
\* the multi-nucleon branch: int iter=0.
MultiplicityEnter ==
  /\ StoredFate = kIHAFtAbs
  /\ ~AbsorptionBlocked(pdgc, fRemnA, fRemnZ)
  /\ Attempt("Inelastic", "AbsMulti:sampling")
  /\ pc' = "loop"
  /\ iterAbs' = 0
  /\ iter2' = 0
  /\ UNCHANGED <<pdgc, status, mom, rescat, nfate, outcome, lists, pair, ev>>
  /\ UNCHANGED fateLocals
  /\ UNCHANGED decayFails
  /\ UNCHANGED remnant

\* The exception leaves Inelastic; the counters are shown as they were at the
\* throw until the next attempt sets them.
MultiplicityThrow(pth) ==
  /\ path' = pth
  /\ Thrown
  /\ UNCHANGED <<iterAbs, iter2, pair>>

\* With ns drawn: nd is drawn, np and nn are computed and the chain of
\* rejection tests is gone through.
MultiplicityTest(nsH) ==
  \E ndH \in NdDraws(fRemnA) :
    IF AcceptedPair(pdgc, fRemnA, fRemnZ, NpOf(nsH, ndH), NnOf(nsH, ndH))
      THEN /\ \E pr \in LeaveOne(pdgc, fRemnA, fRemnZ, ScaleDown(NpOf(nsH, ndH), NnOf(nsH, ndH))) :
                pair' = pr
           /\ pc' = "chosen"
           /\ UNCHANGED <<iterAbs, iter2, path, outcome>>
      ELSE /\ iterAbs' = iterAbs + 1
           /\ pc' = "loop"
           /\ UNCHANGED <<iter2, pair, path, outcome>>

\* One pass of while (not_done), up to the draw of ns.
MultiplicityPass ==
  /\ pc = "loop"
  /\ UNCHANGED <<pdgc, status, mom, rescat, nfate, attempts, gen, lists, ev>>
  /\ UNCHANGED fateLocals
  /\ UNCHANGED decayFails
  /\ UNCHANGED remnant
  /\ IF MultLoopExceeded(iterAbs)
       THEN MultiplicityThrow("AbsMulti:noChoice")
       ELSE IF IsNeutronOrProton(pdgc)
         THEN \E nsH \in NsDraws(pdgc, fRemnA) : MultiplicityTest(nsH)
         ELSE /\ pc' = "sum"
              /\ iter2' = 0
              /\ UNCHANGED <<iterAbs, pair, path, outcome>>

\* One pass of while (not_found), pion and kaon probes: the candidate ns is
\* rejected (ns > max, ns < 0, or rnd > ns/max) or kept.
SumPass ==
  /\ pc = "sum"
  /\ UNCHANGED <<pdgc, status, mom, rescat, nfate, attempts, gen, lists, ev>>
  /\ UNCHANGED fateLocals
  /\ UNCHANGED decayFails
  /\ UNCHANGED remnant
  /\ IF SumLoopExceeded(iter2)
       THEN MultiplicityThrow("AbsMulti:sumStuck")
       ELSE \/ /\ iter2' = iter2 + 1
               /\ UNCHANGED <<pc, iterAbs, pair, path, outcome>>
            \/ \E nsH \in NsDraws(pdgc, fRemnA) : MultiplicityTest(nsH)

InitLoop ==
  /\ InitMult
  /\ fRemnA <= MaxA

NextLoop == MultiplicityEnter \/ MultiplicityPass \/ SumPass

LoopSpec == InitLoop /\ [][NextLoop]_vars

FairLoopSpec == LoopSpec /\ WF_vars(NextLoop)

\* ======================================================================
\* Properties
\* ======================================================================
IsHadron(c) == IsPion(c) \/ IsNeutronOrProton(c) \/ IsKaon(c)

AbsorptionPaths == {"Abs2", "AbsMulti18", "AbsMulti5"}

\* The step is an attempt that completed its channel.
CompletedStep == pc = "kin" /\ pc' = "done" /\ outcome' = "ok"

\* The step is an attempt that ended in an INukeException.
FailedStep == pc = "kin" /\ pc' = "kin" /\ outcome' = "throw" /\ vars' # vars

\* What the step appended to the event record.
Appended == SubSeq(ev', Len(ev) + 1, Len(ev'))

RECURSIVE SumCharge(_)
SumCharge(ps) == IF ps = <<>> THEN 0 ELSE Charge(Head(ps).pdg) + SumCharge(Tail(ps))

RECURSIVE TotalLen(_)
TotalLen(ls) == IF ls = <<>> THEN 0 ELSE Len(Head(ls)) + TotalLen(Tail(ls))

\* C1: every handled particle is eventually returned from, and at least one
\* particle has been appended to the event record by then; kinematics
\* generation is not retried forever.
C1_ReturnsWithParticle ==
  (pc = "idle") ~> (pc = "done" /\ (pdgc \in Handled => Len(ev) >= 1))

\* C2: an Absorption attempt on an insufficient remnant ends the processing:
\* the particle is appended once as stable final state, nothing is retried
\* and the remnant is left as it was.
C2_InsufficientRemnantEnds ==
  [][(pc = "kin" /\ StoredFate = kIHAFtAbs /\ AbsorptionBlocked(pdgc, fRemnA, fRemnZ))
       => /\ pc' = "done"
          /\ status' = kIStStableFinalState
          /\ ev' = Append(ev, Particle(pdgc, kIStStableFinalState, mom))
          /\ UNCHANGED remnant]_vars

\* C3: from a remnant with 0 <= Z <= A, a completed elastic, two-body
\* absorption or multi-nucleon absorption leaves 0 <= Z <= A.
C3_RemnantStaysValid ==
  [][(CompletedStep /\ 0 <= fRemnZ /\ fRemnZ <= fRemnA
        /\ path' \in {"Elas"} \cup AbsorptionPaths)
       => (0 <= fRemnZ' /\ fRemnZ' <= fRemnA')]_vars

\* C4: a completed absorption conserves charge: remnant Z before plus the
\* probe's charge equals remnant Z after plus the charges of the particles
\* the attempt emitted.
C4_ChargeConserved ==
  [][(CompletedStep /\ path' \in AbsorptionPaths)
       => fRemnZ + Charge(pdgc) = fRemnZ' + SumCharge(Appended)]_vars

\* C5: a completed absorption conserves baryon number: remnant A before plus
\* the probe's baryon number equals remnant A after plus the number of
\* nucleon codes handed to emission (2 for two-body, np+nn otherwise).
C5_BaryonConserved ==
  [][(CompletedStep /\ path' \in AbsorptionPaths)
       => /\ fRemnA + Baryon(pdgc) = fRemnA' + TotalLen(lists')
          /\ (path' = "Abs2" => TotalLen(lists') = 2)]_vars

C5_Witness ==
  /\ pc = "done" /\ outcome = "ok" /\ path = "AbsMulti5"
  /\ IsNeutronOrProton(pdgc)
  /\ TotalLen(lists) > 18

\* C6: a failed absorption or pion-production attempt appends nothing to the
\* event record and does not change the probe's status.
C6_FailedAttemptInvisible ==
  [][(FailedStep /\ StoredFate \in {kIHAFtAbs, kIHAFtPiProd})
       => (ev' = ev /\ status' = status)]_vars

\* C7: the fate is sampled once: HadronFateHA is called once, its result is
\* what is stored, and every kinematics attempt, retries included, leaves the
\* stored fate alone, draws no new fate and goes to the same generator.
C7_FateSampledOnce ==
  [][/\ nfate' <= 1
     /\ (pc = "fateret" => rescat' = sel)
     /\ (pc = "kin" => (rescat' = rescat /\ nfate' = nfate /\ ndraw' = ndraw))
     /\ (pc = "kin" /\ attempts >= 1 => gen' = gen)]_vars

C7_Witness == pc = "done" /\ outcome = "ok" /\ attempts >= 2 /\ nfate = 1

\* C8: for a pion or nucleon HadronFateHA returns the first channel, in the
\* order CEx, Elas, Inelas, Abs, PiProd, whose cumulative fraction is above
\* r; r below frac_cex gives CEx; a channel of fraction 0 is never returned.
FateOrder == <<kIHAFtCEx, kIHAFtElas, kIHAFtInelas, kIHAFtAbs, kIHAFtPiProd>>

RECURSIVE CumulativeTo(_)
CumulativeTo(k) == IF k = 0 THEN 0 ELSE CumulativeTo(k - 1) + frac[FateOrder[k]]

C8_FirstChannelAbove ==
  (iter >= 1 /\ (IsPion(pdgc) \/ IsNeutronOrProton(pdgc)) /\ pc \in {"fate", "fateret"}
     /\ (pc = "fateret" => sel # kIHAFtUndefined))
    => /\ \A k \in 1..5 :
            (CumulativeTo(k) > r /\ \A j \in 1..(k - 1) : CumulativeTo(j) <= r)
              => sel = FateOrder[k]
       /\ (sel \in Fates5 => frac[sel] > 0)
       /\ (r < frac[kIHAFtCEx] => sel = kIHAFtCEx)

C8_Witness ==
  /\ pc = "fateret" /\ pdgc = kPdgPiP
  /\ frac = ScenarioFrac /\ r = 1 /\ sel = kIHAFtCEx

\* C9: for pions, nucleons and kaons one draw selects nothing only when r is
\* not below the total fraction; with tf > 0 and r < tf the first draw
\* returns a channel, without any retry.
TotalFor(c) == IF IsKaon(c) THEN TotalKaon ELSE TotalPiN

C9_NoSelectionOnlyAtBoundary ==
  (iter >= 1 /\ IsHadron(pdgc) /\ pc \in {"fate", "fateret"})
    => /\ (sel = NoSelection => r >= TotalFor(pdgc))
       /\ ((TotalFor(pdgc) > 0 /\ r < TotalFor(pdgc))
             => (pc = "fateret" /\ sel \in Fates5 /\ iter = 1 /\ ndraw = 1))

C9_Witness ==
  /\ pc = "fateret" /\ IsKaon(pdgc) /\ sel = kIHAFtAbs
  /\ iter = 1 /\ r >= frac[kIHAFtInelas] /\ frac[kIHAFtInelas] > 0

\* C10: HadronFateHA terminates: at most kRjMaxIterations attempts are made,
\* it returns at the attempt that selects a channel, and it returns
\* Undefined exactly when kRjMaxIterations attempts selected nothing, which
\* for a hadron is when every fraction of the species is 0.
C10_Bounded ==
  /\ ndraw <= kRjMaxIterations
  /\ (pc = "fate" => (iter <= kRjMaxIterations /\ (iter >= 1 => sel = NoSelection)))
  /\ (pc = "fateret" /\ sel # kIHAFtUndefined
        => (sel \in Fates5 /\ iter <= kRjMaxIterations
              /\ (IsHadron(pdgc) => TotalFor(pdgc) > 0)))
  /\ (pc = "fateret" /\ sel = kIHAFtUndefined
        => (iter = kRjMaxIterations + 1
              /\ (IsHadron(pdgc) => (ndraw = kRjMaxIterations /\ TotalFor(pdgc) = 0))))

C10_FateTerminates == [](C10_Bounded) /\ ((pc = "fate") ~> (pc = "fateret"))

C10_Witness ==
  /\ pc = "fateret" /\ sel = kIHAFtUndefined /\ IsPion(pdgc)
  /\ ndraw = kRjMaxIterations
\* C11: when HadronFateHA returns Undefined, exactly one particle is appended:
\* the input particle as stable final state with its species and momentum
\* unchanged; no kinematics generator is called and the remnant (A, Z, P4)
\* is left as it was.
C11_UndefinedStep ==
  (pc = "fateret" /\ sel = kIHAFtUndefined)
    => /\ pc' = "done"
       /\ rescat' = kIHAFtUndefined
       /\ ev' = Append(ev, Particle(pdgc, kIStStableFinalState, mom))
       /\ status' = kIStStableFinalState
       /\ pdgc' = pdgc /\ mom' = mom
       /\ UNCHANGED kinVars
       /\ UNCHANGED <<iterAbs, iter2>>
       /\ UNCHANGED remnant

C11_UndefinedIsTerminal ==
  /\ [][C11_UndefinedStep]_vars
  /\ [](rescat = kIHAFtUndefined
         => (pc = "done" /\ Len(ev) = 1 /\ attempts = 0 /\ gen = "none" /\ fRemnP4 = 0))

C11_Witness ==
  /\ pc = "done" /\ rescat = kIHAFtUndefined /\ IsKaon(pdgc)
  /\ ev = <<Particle(pdgc, kIStStableFinalState, 0)>>
  /\ attempts = 0 /\ fRemnA = 2 /\ fRemnZ = 1
\* C12: every (np, nn) with which multi-nucleon absorption goes on to emission
\* (after acceptance, scale-down and the leave-one decrement) has np >= 0,
\* nn >= 0, np + nn >= 2, np at most the protons and nn at most the neutrons
\* of the remnant with the probe added, for every probe and every remnant
\* with A >= 2.
C12_PairWithinBounds ==
  (pc = "kin" /\ StoredFate = kIHAFtAbs /\ IsHadron(pdgc) /\ fRemnA >= 2
     /\ ~AbsorptionBlocked(pdgc, fRemnA, fRemnZ))
    => \A pr \in FinalPairs(pdgc, fRemnA, fRemnZ) :
         /\ pr[1] >= 0 /\ pr[2] >= 0
         /\ pr[1] + pr[2] >= 2
         /\ pr[1] <= fRemnZ + Charge(pdgc)
         /\ pr[2] <= (fRemnA + Baryon(pdgc)) - (fRemnZ + Charge(pdgc))
\* C13: when multi-nucleon absorption ends with np + nn > 18 the five-group
\* path is taken: five lists are built whose sizes sum to np + nn, lists 2 to
\* 5 each starting with one carrier nucleon taken out of np/nn, and the
\* remnant ends with A lowered by np + nn and Z by np from its value with the
\* probe added.
RECURSIVE TotalCount(_, _)
TotalCount(ls, c) == IF ls = <<>> THEN 0 ELSE CountOf(Head(ls), c) + TotalCount(Tail(ls), c)

C13_FiveGroupSplit ==
  [][(CompletedStep /\ path' \in {"AbsMulti18", "AbsMulti5"})
       => /\ (pair'[1] + pair'[2] > 18) = (path' = "AbsMulti5")
          /\ (path' = "AbsMulti5"
                => /\ Len(lists') = 5
                   /\ TotalLen(lists') = pair'[1] + pair'[2]
                   /\ TotalCount(lists', kPdgProton) = pair'[1]
                   /\ TotalCount(lists', kPdgNeutron) = pair'[2]
                   /\ \A k \in 2..5 : Len(lists'[k]) >= 1
                   /\ \A k \in 1..5 : Len(lists'[k]) <= 18
                   /\ fRemnA' = (fRemnA + Baryon(pdgc)) - (pair'[1] + pair'[2])
                   /\ fRemnZ' = (fRemnZ + Charge(pdgc)) - pair'[1])]_vars

C13_Witness ==
  /\ pc = "done" /\ outcome = "ok" /\ path = "AbsMulti5"
  /\ pair[1] + pair[2] = 19 /\ pdgc = kPdgProton
  /\ Len(lists) = 5 /\ lists[2][1] = kPdgProton /\ lists[3][1] = kPdgNeutron
\* C14: for a K+ or K- HadronFateHA returns only Inelastic, Absorption or
\* Undefined, never Charge-Exchange, Elastic or Pion-Production, whatever the
\* fraction table holds.
C14_KaonFates ==
  IsKaon(pdgc)
    => /\ (pc = "fateret" => sel \in {kIHAFtInelas, kIHAFtAbs, kIHAFtUndefined})
       /\ (pc = "fate" => sel = NoSelection)
       /\ rescat \in {NoFate, kIHAFtInelas, kIHAFtAbs, kIHAFtUndefined}

C14_Witness ==
  /\ pc = "fateret" /\ pdgc = kPdgKM /\ sel = kIHAFtInelas
  /\ frac[kIHAFtCEx] > 0 /\ frac[kIHAFtElas] > 0 /\ frac[kIHAFtPiProd] > 0
\* C15: when the phase-space decay fails on the path for at most 18 nucleons,
\* the remnant (A, Z) at the throw equals the (A, Z) held before the attempt,
\* for every probe species, so (A, Z) does not drift over failed attempts.
C15_RemnantRestored ==
  [][(pc = "kin" /\ path' = "AbsMulti18:decayFails" /\ outcome' = "throw")
       => (fRemnA' = fRemnA /\ fRemnZ' = fRemnZ)]_vars
\* C16: two-body absorption goes ahead only with a target pair the remnant
\* holds: the proton targets among (t1, t2) number at most Z and the neutron
\* targets at most A - Z; every pair the selection can produce for a remnant
\* that passed the three absorption tests is present in it.
C16_TargetPairPresent ==
  (pc = "kin" /\ StoredFate = kIHAFtAbs /\ (IsPion(pdgc) \/ IsKaon(pdgc))
     /\ 0 <= fRemnZ /\ fRemnZ <= fRemnA
     /\ ~AbsorptionBlocked(pdgc, fRemnA, fRemnZ))
    => \A sp \in TwoBodySpecies(pdgc, fRemnA, fRemnZ) :
         /\ NProtons(sp[1], sp[2]) <= fRemnZ
         /\ 2 - NProtons(sp[1], sp[2]) <= fRemnA - fRemnZ
\* C17: after a completed multi-nucleon absorption the remnant keeps at least
\* one nucleon, for every probe species, K+ and K- included.
C17_OneNucleonLeft ==
  [][(CompletedStep /\ path' \in {"AbsMulti18", "AbsMulti5"}
        /\ 0 <= fRemnZ /\ fRemnZ <= fRemnA)
       => fRemnA' >= 1]_vars
\* C18: the number np + nn of absorbed nucleons used for emission in
\* multi-nucleon absorption never exceeds 85: an accepted pair above 85 is
\* scaled down before emission.
C18_AtMost85 == (pc = "chosen") => (pair[1] + pair[2] <= 85)
\* C19: on the five-group path, when the phase-space decay of one of the five
\* groups fails, a kinematics failure is raised to the retry and the remnant
\* changes of the attempt are reverted, as on the path for at most 18.
\* A group whose decay failed has emitted nothing.
C19_FiveGroupFailureRaised ==
  [][(pc = "kin" /\ path' = "AbsMulti5" /\ Len(Appended) < TotalLen(lists'))
       => (outcome' = "throw" /\ pc' = "kin"
             /\ fRemnA' = fRemnA /\ fRemnZ' = fRemnZ)]_vars
\* C20 (as claimed): a sentinel scattering-angle cosine (< -1) is a
\* recoverable failure in every generator that samples an angle: in
\* InelasticHA and in two-body absorption alike it raises a kinematics
\* failure that is caught and retried with the same fate, and does not end
\* the particle's processing.
C20_SentinelAlwaysRetried ==
  [][(pc = "kin" /\ path' \in {"InelHA:badAngle", "Abs2:badAngle"})
       => (outcome' = "throw" /\ pc' = "kin" /\ rescat' = rescat
             /\ ev' = ev /\ status' = status)]_vars

\* C20 (amended): in two-body absorption a sentinel cosine raises a kinematics
\* failure that is caught and retried with the same fate, nothing appended and
\* the remnant untouched; in InelasticHA it ends the particle's processing:
\* the particle is appended unchanged as stable final state, the remnant is
\* untouched and nothing is retried.
C20_SentinelByGenerator ==
  [][/\ (pc = "kin" /\ path' = "Abs2:badAngle")
          => (outcome' = "throw" /\ pc' = "kin" /\ rescat' = rescat
                /\ ev' = ev /\ status' = status /\ UNCHANGED remnant)
     /\ (pc = "kin" /\ path' = "InelHA:badAngle")
          => (outcome' = "terminal" /\ pc' = "done" /\ rescat' = rescat
                /\ status' = kIStStableFinalState
                /\ ev' = Append(ev, Particle(pdgc, kIStStableFinalState, mom))
                /\ UNCHANGED remnant)]_vars

C20_Witness ==
  /\ pc = "done" /\ path = "InelHA:badAngle" /\ outcome = "terminal"
  /\ rescat = kIHAFtCEx /\ attempts >= 2
  /\ ev[Len(ev)] = Particle(pdgc, kIStStableFinalState, 0)
\* C21: in InelasticHA the remnant changes once per emitted pair: when the
\* two-body collision succeeds but an outgoing kinetic energy exceeds the
\* probe's, the kinematics failure leaves the remnant (A, Z, P4) as it was
\* before the attempt and appends nothing.
C21_EnergyCheckLeavesRemnant ==
  [][(pc = "kin" /\ path' = "InelHA:keTooLarge")
       => (outcome' = "throw" /\ pc' = "kin" /\ ev' = ev /\ UNCHANGED remnant)]_vars
\* C22: InelasticHA ends the processing without retry when the remnant is
\* insufficient: if A < 1, or if Z plus the probe's charge is below the summed
\* charge of the two outgoing species, the particle is appended once as stable
\* final state, no exception is raised and the remnant (A, Z, P4) is
\* unchanged; and it ends this way only then.
C22_Ends ==
  /\ pc' = "done" /\ outcome' = "terminal"
  /\ status' = kIStStableFinalState
  /\ ev' = Append(ev, Particle(pdgc, kIStStableFinalState, mom))
  /\ UNCHANGED remnant

C22_NeedsMoreProtons(sp) == fRemnZ + Charge(pdgc) < Charge(sp[2]) + Charge(sp[3])

C22_InsufficientRemnantIsTerminal ==
  [][(pc = "kin" /\ Dispatch(StoredFate) = "InelasticHA" /\ vars' # vars
        /\ InelasticHASpecies(StoredFate, pdgc, fRemnA, fRemnZ) # {})
       => /\ (fRemnA < 1 => C22_Ends)
          /\ ((\A sp \in InelasticHASpecies(StoredFate, pdgc, fRemnA, fRemnZ) :
                   C22_NeedsMoreProtons(sp)) => C22_Ends)
          /\ (path' \in {"InelHA:notEnoughNucleons", "InelHA:tooFewProtons"}
                => /\ C22_Ends
                   /\ \/ fRemnA < 1
                      \/ \E sp \in InelasticHASpecies(StoredFate, pdgc, fRemnA, fRemnZ) :
                            C22_NeedsMoreProtons(sp))]_vars

C22_Witness ==
  /\ pc = "done" /\ path = "InelHA:tooFewProtons" /\ outcome = "terminal"
  /\ pdgc = kPdgPiM /\ rescat = kIHAFtCEx /\ fRemnZ = 0 /\ fRemnA >= 1
  /\ ev = <<Particle(kPdgPiM, kIStStableFinalState, 0)>>
\* C23: the rejection loop of multi-nucleon absorption is bounded: after the
\* allowed number of rejected (np, nn) draws, or of rejected draws inside one
\* evaluation of the meson sum distribution, a kinematics failure is raised,
\* and neither the remnant (A, Z, P4) nor the event record has been modified
\* by the attempt at that point.
C23_Counters == iterAbs <= MaxMultIter /\ iter2 <= MaxSumIter

C23_Raised ==
  pc' = "kin" /\ outcome' = "throw" /\ ev' = ev /\ status' = status /\ UNCHANGED remnant

C23_LoopStep ==
  (pc \in {"loop", "sum"})
    => /\ (pc = "loop" /\ iterAbs = MaxMultIter => C23_Raised)
       /\ (pc = "sum" /\ iter2 = MaxSumIter => C23_Raised)
       /\ (pc' = "kin" => /\ C23_Raised
                          /\ \/ (pc = "loop" /\ iterAbs = MaxMultIter)
                             \/ (pc = "sum" /\ iter2 = MaxSumIter))
       /\ ev' = ev /\ UNCHANGED remnant

C23_LoopBounded ==
  /\ [](C23_Counters)
  /\ [][C23_LoopStep]_vars
  /\ ((pc \in {"loop", "sum"}) ~> (pc \in {"chosen", "kin"}))

C23_Witness ==
  /\ pc = "kin" /\ outcome = "throw" /\ path = "AbsMulti:noChoice"
  /\ IsPion(pdgc) /\ iterAbs = MaxMultIter
  /\ ev = <<>> /\ fRemnP4 = 0
\* C24: for the Pion-Production fate a successful production appends exactly
\* three particles, all stable final state, and not the probe itself (its
\* status and momentum stay as they were); a failed production appends
\* nothing and raises a kinematics failure.
C24_ThreeParticles ==
  [][(pc = "kin" /\ StoredFate = kIHAFtPiProd /\ vars' # vars)
       => /\ gen' = "Inelastic" /\ path' = "PiProd"
          /\ status' = status /\ mom' = mom
          /\ \/ /\ pc' = "done" /\ outcome' = "ok"
                /\ Len(Appended) = 3
                /\ \A i \in 1..3 : Appended[i].st = kIStStableFinalState
                /\ \A i \in 1..3 : Appended[i] # Particle(pdgc, status, mom)
             \/ /\ pc' = "kin" /\ outcome' = "throw"
                /\ ev' = ev]_vars

C24_Witness ==
  /\ pc = "done" /\ outcome = "ok" /\ path = "PiProd" /\ attempts >= 2
  /\ Len(ev) = 3 /\ status = kIStHadronInTheNucleus
\* C25: np and nn are the nearest integers to (ns+nd)/2 and (ns-nd)/2 for
\* every sampled ns, nd, negative half-sums included, so a draw whose rounded
\* proton or neutron count is negative is always rejected.  (ns, nd in half
\* units: the half-sums are q/4; n is a nearest integer when |4n - q| <= 2.)
C25_Abs(x) == IF x < 0 THEN -x ELSE x

C25_NearestRounding ==
  (pc = "kin" /\ StoredFate = kIHAFtAbs /\ IsHadron(pdgc)
     /\ ~AbsorptionBlocked(pdgc, fRemnA, fRemnZ))
    => \A d \in NsDraws(pdgc, fRemnA) \X NdDraws(fRemnA) :
         /\ C25_Abs(4 * NpOf(d[1], d[2]) - (d[1] + d[2])) <= 2
         /\ C25_Abs(4 * NnOf(d[1], d[2]) - (d[1] - d[2])) <= 2
         /\ ((d[1] + d[2] < -2 \/ d[1] - d[2] < -2)
               => ~AcceptedPair(pdgc, fRemnA, fRemnZ, NpOf(d[1], d[2]), NnOf(d[1], d[2])))
\* C26: in two-body absorption the target pair and the outgoing pair come from
\* the branching table of the probe's own charge state only: pi+/K+ gives
\* (n,p)->(p,p) or (n,n)->(p,n); pi-/K- gives (p,n)->(n,n) or (p,p)->(p,n);
\* pi0 gives (n,p)->(n,p), (p,p)->(p,p) or (n,n)->(n,n).
C26_Table(c) ==
  IF c = kPdgPiP \/ c = kPdgKP
    THEN {<<kPdgNeutron, kPdgProton, kPdgProton, kPdgProton>>,
          <<kPdgNeutron, kPdgNeutron, kPdgProton, kPdgNeutron>>}
  ELSE IF c = kPdgPiM \/ c = kPdgKM
    THEN {<<kPdgProton, kPdgNeutron, kPdgNeutron, kPdgNeutron>>,
          <<kPdgProton, kPdgProton, kPdgProton, kPdgNeutron>>}
  ELSE {<<kPdgNeutron, kPdgProton, kPdgNeutron, kPdgProton>>,
        <<kPdgProton, kPdgProton, kPdgProton, kPdgProton>>,
        <<kPdgNeutron, kPdgNeutron, kPdgNeutron, kPdgNeutron>>}

C26_OwnTableOnly ==
  (pc = "kin" /\ StoredFate = kIHAFtAbs /\ (IsPion(pdgc) \/ IsKaon(pdgc))
     /\ ~AbsorptionBlocked(pdgc, fRemnA, fRemnZ))
    => TwoBodySpecies(pdgc, fRemnA, fRemnZ) \subseteq C26_Table(pdgc)
\* C27: InelasticHA never goes on to the two-body collision with a target
\* species the remnant does not hold: a proton target only when Z >= 1, a
\* neutron target only when A - Z >= 1, for the fixed charge-exchange targets
\* and for the Z/A-weighted choice alike.
C27_TargetPresent ==
  (pc = "kin" /\ Dispatch(StoredFate) = "InelasticHA"
     /\ fRemnA >= 1 /\ 0 <= fRemnZ /\ fRemnZ <= fRemnA)
    => \A sp \in InelasticHASpecies(StoredFate, pdgc, fRemnA, fRemnZ) :
         ~TooFewProtons(pdgc, sp[2], sp[3], fRemnZ)
           => /\ (sp[1] = kPdgProton => fRemnZ >= 1)
              /\ (sp[1] = kPdgNeutron => fRemnA - fRemnZ >= 1)
\* C28: on the five-group path, for every total np + nn from 19 up to the
\* largest the scale-down lets through, each of the five lists handed to the
\* phase-space decay has at least 1 and at most 18 entries.  (Each of
\* lists 2 to 5 starts with one carrier whatever its species, and what is
\* dealt out afterwards depends on the carriers only through the number of
\* protons among them: one carrier sequence is taken for each such number.)
C28_ListSizes ==
  (pc = "chosen" /\ pair[1] + pair[2] > 18)
    => \A npp \in {CountOf(c, kPdgProton) : c \in CarrierSeqs(pair[1], pair[2], 4)} :
         LET cs == CHOOSE c \in CarrierSeqs(pair[1], pair[2], 4) :
                     CountOf(c, kPdgProton) = npp
             ls == FiveLists(cs, pair[1] - npp, pair[2] - (4 - npp))
         IN {Len(ls[k]) : k \in 1..5} \subseteq 1..18

C28_Witness ==
  /\ pc = "chosen" /\ pair[1] + pair[2] = 86 /\ IsPion(pdgc)
  /\ attempts >= 1 /\ outcome = "throw"
\* C29: a photon is accepted as handled but never transported: HadronFateHA
\* consumes no random draw for it and returns Undefined, Undefined is stored
\* as the rescatter code, and the photon is appended once as stable final
\* state with the remnant unchanged; any other unhandled species, or a null
\* input, changes neither the event record nor the remnant.
C29_PhotonAndUnhandled ==
  /\ [][/\ (pc = "idle" /\ pdgc' = kPdgGamma) => pc' = "fate"
        /\ (pdgc = kPdgGamma /\ pc = "fate") => (ndraw' = 0 /\ sel' \in {NoSelection, kIHAFtUndefined})
        /\ (pdgc = kPdgGamma /\ pc = "fateret")
             => (rescat' = kIHAFtUndefined /\ pc' = "done"
                   /\ ev' = Append(ev, Particle(kPdgGamma, kIStStableFinalState, mom)))
        /\ (pdgc' \in {kPdgGamma, kPdgOther, NullInput} => UNCHANGED remnant)
        /\ (pc = "idle" /\ pdgc' \in {kPdgOther, NullInput})
             => (pc' = "done" /\ ev' = ev /\ rescat' = rescat /\ status' = status)]_vars
  /\ []((pc = "done" /\ pdgc = kPdgGamma)
          => (ev = <<Particle(kPdgGamma, kIStStableFinalState, 0)>>
                /\ rescat = kIHAFtUndefined /\ ndraw = 0 /\ attempts = 0))
  /\ []((pc = "done" /\ pdgc \in {kPdgOther, NullInput})
          => (ev = <<>> /\ nfate = 0 /\ attempts = 0 /\ fRemnP4 = 0))

C29_Witness ==
  /\ pc = "done" /\ pdgc = kPdgGamma /\ rescat = kIHAFtUndefined /\ nfate = 1
  /\ ndraw = 0 /\ ev = <<Particle(kPdgGamma, kIStStableFinalState, 0)>>
  /\ fRemnA = 2 /\ fRemnZ = 1 /\ fRemnP4 = 0
====
